---- MODULE Spec2Model ----
(***************************************************************************)
(* update-informer: the version-check cache (src/version_file.rs).         *)
(*                                                                         *)
(* A VersionFile is a (path, version) pair; its methods act on one file of *)
(* the host file system.  Strings are sequences of one-character strings,  *)
(* so that formatting, concatenation, replacement and appending differ.    *)
(* Every file-system call of std::fs is modelled by its outcomes: success, *)
(* or one of the failures the call can report; which one happens is chosen *)
(* by the environment at each call.                                        *)
(***************************************************************************)
EXTENDS Integers, Sequences, FiniteSets, TLC

VARIABLES
    fs,       \* the cache files, by path: [exists, content, mtime]
    now,      \* the system clock (SystemTime::now), in ticks
    cacheDir, \* the cache directory exists on disk
    vf,       \* the VersionFile in use: [path, version]
    last,     \* the last method call: what was called, on what, and its result
    prev,     \* summary of the method call before `last`
    written,  \* the string of the most recent successful write, if any
    vfA,      \* NewSpec: result of VersionFile::new for the first package
    vfB,      \* NewSpec: result of VersionFile::new for the second package
    pc,       \* CheckerSpec: position of the Update Checker
    age,      \* CheckerSpec: duration returned by last_modified
    interval, \* CheckerSpec: the configured freshness interval
    netCalls, \* CheckerSpec: registry calls made by the current check
    firstRun, \* CheckerSpec: the cache file was absent when the check began
    shown,    \* CheckerSpec: the latest version the check ended with
    cpc,      \* ConcSpec: position of each process in its check
    cage,     \* ConcSpec: the age each process got from last_modified
    cseen,    \* ConcSpec: what each process's fs::metadata call saw, and when
    cothers,  \* ConcSpec: writes of other processes since a process saw no file
    cover     \* ConcSpec: what the bootstrap write of each process overwrote

vars == <<fs, now, cacheDir, vf, last, prev, written, vfA, vfB, pc, age, interval, netCalls, firstRun, shown,
         cpc, cage, cseen, cothers, cover>>

fileVars    == <<fs, now, cacheDir, vf, last, prev, written>>
newVars     == <<vfA, vfB>>
checkerVars == <<pc, age, interval, netCalls, firstRun, shown>>
concVars    == <<cpc, cage, cseen, cothers, cover>>

(***************************************************************************)
(* Bounds of the model.                                                    *)
(***************************************************************************)
MaxTime == 2      \* the clock runs over 0..MaxTime
MaxPartial == 0   \* a failed write leaves at most this many bytes behind
MaxInterval == 2  \* the freshness interval is one of 1..MaxInterval
MaxNameLen == 3   \* owner and package names have 1..MaxNameLen characters

(***************************************************************************)
(* Results: Ok(v) and Err(kind), as Rust's Result.                         *)
(***************************************************************************)
Ok(v)  == [ok |-> TRUE,  val |-> v,      err |-> "none"]
Err(e) == [ok |-> FALSE, val |-> "none", err |-> e]
Unit   == "unit"

Min(a, b) == IF a < b THEN a ELSE b

(***************************************************************************)
(* Version strings used by the callers (the values of the tests).          *)
(***************************************************************************)
V010 == <<"0", ".", "1", ".", "0">>
V100 == <<"1", ".", "0", ".", "0">>
V200 == <<"2", ".", "0", ".", "0">>
Versions == {V010, V100, V200}

(***************************************************************************)
(* The file system: one file, absent or present with contents and a        *)
(* modification time.                                                      *)
(***************************************************************************)
Absent == [exists |-> FALSE, content |-> <<>>, mtime |-> 0]
File(c, t) == [exists |-> TRUE, content |-> c, mtime |-> t]

\* fs::metadata(path): the metadata (here the file's record), NotFound, or
\* another error (permission denied, I/O error).
FsMetadata(disk, path, fault) ==
    IF fault = "stat" THEN Err("Other")
    ELSE IF ~disk[path].exists THEN Err("NotFound")
    ELSE Ok(disk[path])

\* Metadata::modified(): the modification time, or an error on a platform
\* that does not provide it.
MetaModified(meta, fault) ==
    IF fault = "mtime" THEN Err("Unsupported") ELSE Ok(meta.mtime)

\* Mutant of Elapsed: the operands of the subtraction exchanged.
Elapsed_Swapped(t, clock) ==
    IF t >= clock THEN Ok(t - clock) ELSE Err("SystemTimeError")

\* SystemTime::elapsed(): now - t, or an error when t is later than now.
Elapsed(t, clock) ==
    IF clock >= t THEN Ok(clock - t) ELSE Err("SystemTimeError")

\* Result::unwrap_or_default() on a Duration.
UnwrapOrDefault(r) == IF r.ok THEN r.val ELSE 0

\* Mutant of FsWrite: the file is opened for appending instead of truncated.
FsWrite_Append(disk, path, data, clock, fault, k) ==
    LET old == IF disk[path].exists THEN disk[path].content ELSE <<>>
    IN  IF fault = "open" THEN [res |-> Err("Other"), disk |-> disk]
        ELSE IF fault = "data"
        THEN [res |-> Err("Other"),
              disk |-> [disk EXCEPT ![path] =
                           File(old \o SubSeq(data, 1, Min(k, Len(data))), clock)]]
        ELSE [res |-> Ok(Unit), disk |-> [disk EXCEPT ![path] = File(old \o data, clock)]]

\* fs::write(path, data) is File::create(path)?.write_all(data): the file is
\* created or truncated and then filled.  It fails with no effect when the
\* file cannot be opened ("open"), or after the truncation with only the
\* first k bytes written ("data").
FsWrite(disk, path, data, clock, fault, k) ==
    IF fault = "open" THEN [res |-> Err("Other"), disk |-> disk]
    ELSE IF fault = "data"
    THEN [res |-> Err("Other"),
          disk |-> [disk EXCEPT ![path] = File(SubSeq(data, 1, Min(k, Len(data))), clock)]]
    ELSE [res |-> Ok(Unit), disk |-> [disk EXCEPT ![path] = File(data, clock)]]

\* fs::remove_file(path).
FsRemoveFile(disk, path, fault) ==
    IF fault = "remove" THEN [res |-> Err("Other"), disk |-> disk]
    ELSE IF ~disk[path].exists THEN [res |-> Err("NotFound"), disk |-> disk]
    ELSE [res |-> Ok(Unit), disk |-> [disk EXCEPT ![path] = Absent]]

\* fs::read_to_string(path).
FsReadToString(disk, path, fault) ==
    IF fault = "read" THEN Err("Other")
    ELSE IF ~disk[path].exists THEN Err("NotFound")
    ELSE Ok(disk[path].content)

(***************************************************************************)
(* VersionFile (version_file.rs).                                          *)
(***************************************************************************)
VERSION_SUFFIX == <<"l", "a", "t", "e", "s", "t", "-", "v", "e", "r", "s", "i", "o", "n">>

\* Package: a name and an optional owner.
None == [some |-> FALSE, val |-> <<>>]
Some(s) == [some |-> TRUE, val |-> s]
Package(owner, name) == [owner |-> owner, name |-> name]

\* The directory cache_path() resolves to, and PathBuf::join.
CacheDir == <<"/", "c">>
Join(dir, fileName) == dir \o <<"/">> \o fileName

\* Mutant of CachePath: the directory is resolved but not created.
CachePath_NoCreate(dirExists, fault) ==
    IF fault = "nodir" THEN [res |-> Err("Unable to find cache directory"), dirExists |-> dirExists]
    ELSE IF fault = "mkdir" THEN [res |-> Err("Other"), dirExists |-> dirExists]
    ELSE [res |-> Ok(CacheDir), dirExists |-> dirExists]

\* cache_path(): the platform's cache directory, created with its parents
\* when missing.  It fails when the platform has no such directory
\* ("nodir") or when the directory cannot be created ("mkdir").
CachePath(dirExists, fault) ==
    IF fault = "nodir" THEN [res |-> Err("Unable to find cache directory"), dirExists |-> dirExists]
    ELSE IF fault = "mkdir" THEN [res |-> Err("Other"), dirExists |-> dirExists]
    ELSE [res |-> Ok(CacheDir), dirExists |-> TRUE]

\* Mutant of FileName: the owner is not followed by a dash.
FileName_NoOwnerDash(registry, pkg) ==
    LET owner == IF pkg.owner.some THEN pkg.owner.val ELSE <<>>
    IN  registry \o <<"-">> \o owner \o pkg.name \o <<"-">> \o VERSION_SUFFIX

\* format!("{}-{}{}-{}", registry, owner, pkg.name, VERSION_SUFFIX)
FileName(registry, pkg) ==
    LET owner == IF pkg.owner.some THEN pkg.owner.val \o <<"-">> ELSE <<>>
    IN  registry \o <<"-">> \o owner \o pkg.name \o <<"-">> \o VERSION_SUFFIX

\* Mutant of New: the seed version is part of the file name.
New_VersionInPath(registry, pkg, version, dirExists, fault) ==
    LET dir == CachePath(dirExists, fault)
    IN  IF ~dir.res.ok
        THEN [res |-> Err(dir.res.err), dirExists |-> dir.dirExists]
        ELSE [res |-> Ok([path |-> Join(dir.res.val,
                                        FileName(registry, pkg) \o <<"-">> \o version),
                          version |-> version]),
              dirExists |-> dir.dirExists]

\* VersionFile::new
New(registry, pkg, version, dirExists, fault) ==
    LET dir == CachePath(dirExists, fault)
    IN  IF ~dir.res.ok
        THEN [res |-> Err(dir.res.err), dirExists |-> dir.dirExists]
        ELSE [res |-> Ok([path |-> Join(dir.res.val, FileName(registry, pkg)),
                          version |-> version]),
              dirExists |-> dir.dirExists]

\* VersionFile::write_version
WriteVersion(self, disk, version, clock, fault, k) ==
    FsWrite(disk, self.path, version, clock, fault, k)

\* Mutant of LastModified: a missing file is reported as zero age without
\* the seed version being written.
LastModified_NoHeal(self, disk, clock, fault, k) ==
    LET m == FsMetadata(disk, self.path, fault)
    IN  IF m.ok
        THEN LET t == MetaModified(m.val, fault)
             IN  IF ~t.ok
                 THEN [res |-> Err(t.err), disk |-> disk]
                 ELSE [res |-> Ok(UnwrapOrDefault(Elapsed(t.val, clock))), disk |-> disk]
        ELSE IF m.err = "NotFound"
        THEN [res |-> Ok(0), disk |-> disk]
        ELSE [res |-> Err(m.err), disk |-> disk]

\* Mutant of LastModified: a missing file is seeded and reported with the
\* largest age instead of zero.
LastModified_BootstrapMaxAge(self, disk, clock, fault, k) ==
    LET m == FsMetadata(disk, self.path, fault)
    IN  IF m.ok
        THEN LET t == MetaModified(m.val, fault)
             IN  IF ~t.ok
                 THEN [res |-> Err(t.err), disk |-> disk]
                 ELSE [res |-> Ok(UnwrapOrDefault(Elapsed(t.val, clock))), disk |-> disk]
        ELSE IF m.err = "NotFound"
        THEN LET w == WriteVersion(self, disk, self.version, clock, fault, k)
             IN  IF ~w.res.ok
                 THEN [res |-> Err(w.res.err), disk |-> w.disk]
                 ELSE [res |-> Ok(MaxTime + MaxInterval + 1), disk |-> w.disk]
        ELSE [res |-> Err(m.err), disk |-> disk]

\* Mutant of LastModified: the error of SystemTime::elapsed is returned
\* instead of being replaced by the default duration.
LastModified_PropagateElapsed(self, disk, clock, fault, k) ==
    LET m == FsMetadata(disk, self.path, fault)
    IN  IF m.ok
        THEN LET t == MetaModified(m.val, fault)
             IN  IF ~t.ok
                 THEN [res |-> Err(t.err), disk |-> disk]
                 ELSE LET e == Elapsed(t.val, clock)
                      IN  IF e.ok THEN [res |-> Ok(e.val), disk |-> disk]
                          ELSE [res |-> Err(e.err), disk |-> disk]
        ELSE IF m.err = "NotFound"
        THEN LET w == WriteVersion(self, disk, self.version, clock, fault, k)
             IN  IF ~w.res.ok
                 THEN [res |-> Err(w.res.err), disk |-> w.disk]
                 ELSE [res |-> Ok(0), disk |-> w.disk]
        ELSE [res |-> Err(m.err), disk |-> disk]

\* Mutant of LastModified: every error of fs::metadata is taken for a
\* missing file.
LastModified_HealAnyError(self, disk, clock, fault, k) ==
    LET m == FsMetadata(disk, self.path, fault)
    IN  IF m.ok
        THEN LET t == MetaModified(m.val, fault)
             IN  IF ~t.ok
                 THEN [res |-> Err(t.err), disk |-> disk]
                 ELSE [res |-> Ok(UnwrapOrDefault(Elapsed(t.val, clock))), disk |-> disk]
        ELSE LET w == WriteVersion(self, disk, self.version, clock, fault, k)
             IN  IF ~w.res.ok
                 THEN [res |-> Err(w.res.err), disk |-> w.disk]
                 ELSE [res |-> Ok(0), disk |-> w.disk]

\* Mutant of LastModified: the seed version is written on every call, and
\* the age of the file as it was found is returned.
LastModified_AlwaysSeed(self, disk, clock, fault, k) ==
    LET m == FsMetadata(disk, self.path, fault)
    IN  IF m.ok
        THEN LET t == MetaModified(m.val, fault)
             IN  IF ~t.ok
                 THEN [res |-> Err(t.err), disk |-> disk]
                 ELSE [res |-> Ok(UnwrapOrDefault(Elapsed(t.val, clock))),
                       disk |-> WriteVersion(self, disk, self.version, clock, "none", 0).disk]
        ELSE IF m.err = "NotFound"
        THEN LET w == WriteVersion(self, disk, self.version, clock, fault, k)
             IN  IF ~w.res.ok
                 THEN [res |-> Err(w.res.err), disk |-> w.disk]
                 ELSE [res |-> Ok(0), disk |-> w.disk]
        ELSE [res |-> Err(m.err), disk |-> disk]

\* Mutant of LastModified: the result of the bootstrap write is ignored.
LastModified_IgnoreWriteError(self, disk, clock, fault, k) ==
    LET m == FsMetadata(disk, self.path, fault)
    IN  IF m.ok
        THEN LET t == MetaModified(m.val, fault)
             IN  IF ~t.ok
                 THEN [res |-> Err(t.err), disk |-> disk]
                 ELSE [res |-> Ok(UnwrapOrDefault(Elapsed(t.val, clock))), disk |-> disk]
        ELSE IF m.err = "NotFound"
        THEN LET w == WriteVersion(self, disk, self.version, clock, fault, k)
             IN  [res |-> Ok(0), disk |-> w.disk]
        ELSE [res |-> Err(m.err), disk |-> disk]

\* VersionFile::last_modified
LastModified(self, disk, clock, fault, k) ==
    LET m == FsMetadata(disk, self.path, fault)
    IN  IF m.ok
        THEN LET t == MetaModified(m.val, fault)
             IN  IF ~t.ok
                 THEN [res |-> Err(t.err), disk |-> disk]
                 ELSE [res |-> Ok(UnwrapOrDefault(Elapsed(t.val, clock))), disk |-> disk]
        ELSE IF m.err = "NotFound"
        THEN LET w == WriteVersion(self, disk, self.version, clock, fault, k)
             IN  IF ~w.res.ok
                 THEN [res |-> Err(w.res.err), disk |-> w.disk]
                 ELSE [res |-> Ok(0), disk |-> w.disk]
        ELSE [res |-> Err(m.err), disk |-> disk]

\* Mutant of LastModifiedStat: any failure of fs::metadata is taken for a
\* missing file.
LastModifiedStat_HealAnyError(self, disk, clock, fault) ==
    LET m == FsMetadata(disk, self.path, fault)
    IN  IF m.ok
        THEN LET t == MetaModified(m.val, fault)
             IN  IF ~t.ok
                 THEN [pending |-> FALSE, res |-> Err(t.err)]
                 ELSE [pending |-> FALSE,
                       res |-> Ok(UnwrapOrDefault(Elapsed(t.val, clock)))]
        ELSE [pending |-> TRUE, res |-> Err(m.err)]

\* VersionFile::last_modified up to the return of fs::metadata: the call is
\* over unless the file was NotFound, and then the bootstrap write is still
\* to be made (pending).  Other processes run between the two.
LastModifiedStat(self, disk, clock, fault) ==
    LET m == FsMetadata(disk, self.path, fault)
    IN  IF m.ok
        THEN LET t == MetaModified(m.val, fault)
             IN  IF ~t.ok
                 THEN [pending |-> FALSE, res |-> Err(t.err)]
                 ELSE [pending |-> FALSE,
                       res |-> Ok(UnwrapOrDefault(Elapsed(t.val, clock)))]
        ELSE IF m.err = "NotFound"
        THEN [pending |-> TRUE, res |-> Err(m.err)]
        ELSE [pending |-> FALSE, res |-> Err(m.err)]

\* Mutant of LastModifiedBootstrap: a file that was missing is reported as
\* older than any interval.
LastModifiedBootstrap_MaxAge(self, disk, clock, fault, k) ==
    LET w == WriteVersion(self, disk, self.version, clock, fault, k)
    IN  IF ~w.res.ok
        THEN [res |-> Err(w.res.err), disk |-> w.disk]
        ELSE [res |-> Ok(MaxTime + MaxInterval + 1), disk |-> w.disk]

\* VersionFile::last_modified after fs::metadata returned NotFound: the seed
\* version is written and the age is Duration::default().
LastModifiedBootstrap(self, disk, clock, fault, k) ==
    LET w == WriteVersion(self, disk, self.version, clock, fault, k)
    IN  IF ~w.res.ok
        THEN [res |-> Err(w.res.err), disk |-> w.disk]
        ELSE [res |-> Ok(0), disk |-> w.disk]

\* Mutant of RecreateFile: the file is removed and nothing is written.
RecreateFile_RemoveOnly(self, disk, clock, fault, k) ==
    FsRemoveFile(disk, self.path, fault)

\* Mutant of RecreateFile: the result of the removal is ignored.
RecreateFile_IgnoreRemoveError(self, disk, clock, fault, k) ==
    LET r == FsRemoveFile(disk, self.path, fault)
    IN  WriteVersion(self, r.disk, self.version, clock, fault, k)

\* VersionFile::recreate_file
RecreateFile(self, disk, clock, fault, k) ==
    LET r == FsRemoveFile(disk, self.path, fault)
    IN  IF ~r.res.ok
        THEN [res |-> Err(r.res.err), disk |-> r.disk]
        ELSE WriteVersion(self, r.disk, self.version, clock, fault, k)

\* Mutant of GetVersion: a failed read yields the empty string.
GetVersion_OrDefault(self, disk, fault) ==
    LET r == FsReadToString(disk, self.path, fault)
    IN  [res |-> IF r.ok THEN r ELSE Ok(<<>>), disk |-> disk]

\* VersionFile::get_version
GetVersion(self, disk, fault) ==
    [res |-> FsReadToString(disk, self.path, fault), disk |-> disk]

(***************************************************************************)
(* Spec: one process using one VersionFile, one method call after another. *)
(***************************************************************************)
\* The registry and package of the entry (the values of the tests).
Reg  == <<"r", "e", "g">>
Repo == Package(None, <<"r", "e", "p", "o">>)
RepoPath == Join(CacheDir, FileName(Reg, Repo))

NoCall == [op |-> "none", arg |-> <<>>, seed |-> <<>>, fault |-> "none",
           pre |-> Absent, clock |-> 0, res |-> Ok(Unit)]

Call(op, arg, fault, res) ==
    [op |-> op, arg |-> arg, seed |-> vf.version, fault |-> fault,
     pre |-> fs[vf.path], clock |-> now, res |-> res]

\* What the next call remembers of the call before it: whether it was a
\* successful bootstrap or a successful write_version, and of which string.
Summary(c) ==
    IF c.op = "last_modified" /\ c.res.ok /\ ~c.pre.exists
    THEN [kind |-> "bootstrap", arg |-> c.seed, replaced |-> FALSE]
    ELSE IF c.op = "write_version" /\ c.res.ok
    THEN [kind |-> "write", arg |-> c.arg,
          replaced |-> c.pre.exists /\ c.pre.content # c.arg]
    ELSE [kind |-> "other", arg |-> <<>>, replaced |-> FALSE]

\* The most recent successful write after a call: a bootstrap or a
\* recreation writes the seed, write_version its argument.
Written(c, before) ==
    IF ~c.res.ok THEN before
    ELSE IF c.op = "write_version" THEN Some(c.arg)
    ELSE IF c.op = "recreate_file" THEN Some(c.seed)
    ELSE IF c.op = "last_modified" /\ ~c.pre.exists THEN Some(c.seed)
    ELSE before

\* The failures the environment can inject into each method, given the file.
LastModifiedFaults ==
    IF fs[vf.path].exists THEN {"none", "stat", "mtime"}
    ELSE {"none", "stat", "open", "data"}
RecreateFileFaults ==
    IF fs[vf.path].exists THEN {"none", "remove", "open", "data"}
    ELSE {"none", "remove"}
WriteVersionFaults == {"none", "open", "data"}
GetVersionFaults == {"none", "read"}
Partial(fault) == IF fault = "data" THEN 0..MaxPartial ELSE {0}

FileInit ==
    /\ cacheDir = TRUE
    /\ \E v \in Versions : vf = New(Reg, Repo, v, FALSE, "none").res.val
    /\ fs = [p \in {RepoPath} |-> Absent]
    /\ now = 0
    /\ last = NoCall
    /\ prev = Summary(NoCall)
    /\ written = None

\* No VersionFile::new has been called yet.
NoBuild == [registry |-> <<>>, pkg |-> Package(None, <<>>), version |-> <<>>,
            fault |-> "none", res |-> Err("unset")]

NewIdle     == vfA = NoBuild /\ vfB = NoBuild
CheckerIdle == pc = "idle" /\ age = 0 /\ interval = 0 /\ netCalls = 0
               /\ firstRun = FALSE /\ shown = <<>>

\* The processes of ConcSpec: two invocations of host tools that share the
\* cache file of one package.
Procs  == {1, 2}
NoSeen == [exists |-> FALSE, mtime |-> 0, clock |-> 0]
NoOver == [existed |-> FALSE, others |-> "none", lostNewer |-> FALSE]
ConcIdle ==
    /\ cpc = [p \in Procs |-> "stat"]
    /\ cage = [p \in Procs |-> 0]
    /\ cseen = [p \in Procs |-> NoSeen]
    /\ cothers = [p \in Procs |-> "none"]
    /\ cover = [p \in Procs |-> NoOver]

Init == FileInit /\ NewIdle /\ CheckerIdle /\ ConcIdle

\* A later invocation of the host tool builds the entry again, with the
\* version it is running.  (When new fails there is no entry and no method
\* to call; the failures of new are the subject of NewSpec.)
DoNew ==
    \E v \in Versions :
        LET r == New(Reg, Repo, v, cacheDir, "none")
        IN  /\ vf' = r.res.val
            /\ cacheDir' = r.dirExists
            /\ last' = Call("new", v, "none", Ok(Unit))
            /\ prev' = Summary(last)
            /\ UNCHANGED <<fs, now, written, newVars, checkerVars, concVars>>

DoLastModified ==
    \E fault \in LastModifiedFaults : \E k \in Partial(fault) :
        LET r == LastModified(vf, fs, now, fault, k)
        IN  /\ fs' = r.disk
            /\ last' = Call("last_modified", <<>>, fault, r.res)
            /\ prev' = Summary(last)
            /\ written' = Written(Call("last_modified", <<>>, fault, r.res), written)
            /\ UNCHANGED <<now, cacheDir, vf, newVars, checkerVars, concVars>>

DoRecreateFile ==
    \E fault \in RecreateFileFaults : \E k \in Partial(fault) :
        LET r == RecreateFile(vf, fs, now, fault, k)
        IN  /\ fs' = r.disk
            /\ last' = Call("recreate_file", <<>>, fault, r.res)
            /\ prev' = Summary(last)
            /\ written' = Written(Call("recreate_file", <<>>, fault, r.res), written)
            /\ UNCHANGED <<now, cacheDir, vf, newVars, checkerVars, concVars>>

DoWriteVersion ==
    \E v \in Versions : \E fault \in WriteVersionFaults : \E k \in Partial(fault) :
        LET r == WriteVersion(vf, fs, v, now, fault, k)
        IN  /\ fs' = r.disk
            /\ last' = Call("write_version", v, fault, r.res)
            /\ prev' = Summary(last)
            /\ written' = Written(Call("write_version", v, fault, r.res), written)
            /\ UNCHANGED <<now, cacheDir, vf, newVars, checkerVars, concVars>>

DoGetVersion ==
    \E fault \in GetVersionFaults :
        LET r == GetVersion(vf, fs, fault)
        IN  /\ fs' = r.disk
            /\ last' = Call("get_version", <<>>, fault, r.res)
            /\ prev' = Summary(last)
            /\ written' = Written(Call("get_version", <<>>, fault, r.res), written)
            /\ UNCHANGED <<now, cacheDir, vf, newVars, checkerVars, concVars>>

\* Time passes.
Tick ==
    /\ now < MaxTime
    /\ now' = now + 1
    /\ UNCHANGED <<fs, cacheDir, vf, last, prev, written, newVars, checkerVars, concVars>>

\* The system clock is set back (the case SystemTime::elapsed reports as an
\* error).
ClockSetBack ==
    /\ now > 0
    /\ now' \in 0..(now - 1)
    /\ UNCHANGED <<fs, cacheDir, vf, last, prev, written, newVars, checkerVars, concVars>>

Next ==
    \/ DoNew
    \/ DoLastModified
    \/ DoRecreateFile
    \/ DoWriteVersion
    \/ DoGetVersion
    \/ Tick
    \/ ClockSetBack

Spec == Init /\ [][Next]_vars

(***************************************************************************)
(* NewSpec: VersionFile::new called for two packages, one after the other. *)
(***************************************************************************)
\* Owner and package names: letters and interior dashes ("a-a"), as the
\* names of crates and of GitHub owners and repositories.
NameChars == {"a", "-"}
Names ==
    {s \in UNION {[1..n -> NameChars] : n \in 1..MaxNameLen} :
        s[1] # "-" /\ s[Len(s)] # "-"}
Owners == {None} \cup {Some(o) : o \in Names}
Packages == {Package(o, n) : o \in Owners, n \in Names}
Registries == {<<"r">>, <<"g">>}
NewFaults == {"none", "nodir", "mkdir"}

Build(registry, pkg, version, fault) ==
    [registry |-> registry, pkg |-> pkg, version |-> version, fault |-> fault,
     res |-> New(registry, pkg, version, cacheDir, fault).res]

NewInit ==
    /\ cacheDir \in BOOLEAN
    /\ vf = New(Reg, Repo, V010, FALSE, "none").res.val
    /\ fs = [p \in {RepoPath} |-> Absent]
    /\ now = 0
    /\ last = NoCall
    /\ prev = Summary(NoCall)
    /\ written = None
    /\ NewIdle
    /\ CheckerIdle
    /\ ConcIdle

\* create_dir_all succeeds on a directory that exists already.
BuildFaults == IF cacheDir THEN NewFaults \ {"mkdir"} ELSE NewFaults

BuildA ==
    /\ vfA = NoBuild
    /\ \E r \in Registries : \E pkg \in Packages : \E fault \in BuildFaults :
          /\ vfA' = Build(r, pkg, V010, fault)
          /\ cacheDir' = New(r, pkg, V010, cacheDir, fault).dirExists
    /\ UNCHANGED <<fs, now, vf, last, prev, written, vfB, checkerVars, concVars>>

BuildB ==
    /\ vfA # NoBuild
    /\ vfB = NoBuild
    /\ \E r \in Registries : \E pkg \in Packages : \E v \in {V010, V100} :
       \E fault \in BuildFaults :
          /\ vfB' = Build(r, pkg, v, fault)
          /\ cacheDir' = New(r, pkg, v, cacheDir, fault).dirExists
    /\ UNCHANGED <<fs, now, vf, last, prev, written, vfA, checkerVars, concVars>>

NewNext == BuildA \/ BuildB

NewSpec == NewInit /\ [][NewNext]_vars

(***************************************************************************)
(* CheckerSpec: the Update Checker, which calls new, then last_modified,   *)
(* compares the age with the configured interval, and on staleness calls   *)
(* the registry and write_version, otherwise get_version.                  *)
(***************************************************************************)
\* The freshness policy: stale when the age exceeds the interval.
Stale(a, i) == a > i

CheckerInit == FileInit /\ NewIdle /\ CheckerIdle /\ ConcIdle

\* A check begins: the entry is built with the running version.
ChkBegin ==
    /\ pc = "idle"
    /\ \E i \in 1..MaxInterval : \E v \in Versions :
          LET r == New(Reg, Repo, v, cacheDir, "none")
          IN  /\ vf' = r.res.val
              /\ cacheDir' = r.dirExists
              /\ interval' = i
              /\ firstRun' = ~fs[r.res.val.path].exists
    /\ netCalls' = 0
    /\ age' = 0
    /\ shown' = <<>>
    /\ pc' = "age"
    /\ UNCHANGED <<fs, now, last, prev, written, newVars, concVars>>

ChkAge ==
    /\ pc = "age"
    /\ \E fault \in LastModifiedFaults : \E k \in Partial(fault) :
          LET r == LastModified(vf, fs, now, fault, k)
          IN  /\ fs' = r.disk
              /\ age' = IF r.res.ok THEN r.res.val ELSE age
              /\ pc' = IF r.res.ok THEN "decide" ELSE "failed"
    /\ UNCHANGED <<now, cacheDir, vf, last, prev, written, newVars,
                   interval, netCalls, firstRun, shown, concVars>>

ChkDecide ==
    /\ pc = "decide"
    /\ pc' = IF Stale(age, interval) THEN "fetch" ELSE "read"
    /\ UNCHANGED <<fileVars, newVars, age, interval, netCalls, firstRun, shown, concVars>>

\* The registry call: it yields the latest version, or fails.
ChkFetch ==
    /\ pc = "fetch"
    /\ netCalls' = netCalls + 1
    /\ \/ \E v \in Versions : shown' = v /\ pc' = "write"
       \/ shown' = shown /\ pc' = "failed"
    /\ UNCHANGED <<fileVars, newVars, age, interval, firstRun, concVars>>

ChkWrite ==
    /\ pc = "write"
    /\ \E fault \in WriteVersionFaults : \E k \in Partial(fault) :
          LET r == WriteVersion(vf, fs, shown, now, fault, k)
          IN  /\ fs' = r.disk
              /\ pc' = IF r.res.ok THEN "done" ELSE "failed"
    /\ UNCHANGED <<now, cacheDir, vf, last, prev, written, newVars,
                   age, interval, netCalls, firstRun, shown, concVars>>

ChkRead ==
    /\ pc = "read"
    /\ \E fault \in GetVersionFaults :
          LET r == GetVersion(vf, fs, fault)
          IN  /\ fs' = r.disk
              /\ shown' = IF r.res.ok THEN r.res.val ELSE shown
              /\ pc' = IF r.res.ok THEN "done" ELSE "failed"
    /\ UNCHANGED <<now, cacheDir, vf, last, prev, written, newVars,
                   age, interval, netCalls, firstRun, concVars>>

\* The host tool exits; a later invocation checks again.
ChkEnd ==
    /\ pc \in {"done", "failed"}
    /\ pc' = "idle"
    /\ UNCHANGED <<fileVars, newVars, age, interval, netCalls, firstRun, shown, concVars>>

CheckerNext ==
    \/ ChkBegin
    \/ ChkAge
    \/ ChkDecide
    \/ ChkFetch
    \/ ChkWrite
    \/ ChkRead
    \/ ChkEnd
    \/ Tick
    \/ ClockSetBack

CheckerSpec == CheckerInit /\ [][CheckerNext]_vars

(***************************************************************************)
(* ConcSpec: two processes run the Update Checker flow on the cache file   *)
(* of one package.  Nothing in version_file.rs takes a lock, so the        *)
(* processes interleave at every file-system call: fs::metadata and the    *)
(* bootstrap fs::write of last_modified are separate steps.  A process     *)
(* that ends its check, or fails, is replaced by a later invocation.       *)
(***************************************************************************)
\* The version each host tool is running, and the one the registry has.
Seed(p) == IF p = 1 THEN V010 ELSE V100
Latest  == V200

Entry(p) == New(Reg, Repo, Seed(p), cacheDir, "none").res.val

StatFaults ==
    IF fs[RepoPath].exists THEN {"none", "stat", "mtime"} ELSE {"none", "stat"}

\* A process that found no file and has not yet written learns nothing of
\* what the others write meanwhile; the model keeps note of it.
Noted(p, kind, disk) ==
    [q \in Procs |->
        IF q = p THEN "none"
        ELSE IF cpc[q] = "boot" /\ disk # fs THEN kind
        ELSE cothers[q]]

CStat ==
    \E p \in Procs :
        /\ cpc[p] = "stat"
        /\ \E fault \in StatFaults :
              LET r == LastModifiedStat(Entry(p), fs, now, fault)
              IN  /\ cpc' = [cpc EXCEPT ![p] = IF r.pending THEN "boot"
                                               ELSE IF r.res.ok THEN "decide"
                                               ELSE "stat"]
                  /\ cage' = [cage EXCEPT ![p] = IF r.res.ok THEN r.res.val ELSE 0]
                  /\ cseen' = [cseen EXCEPT ![p] =
                                  IF r.res.ok
                                  THEN [exists |-> TRUE,
                                        mtime |-> fs[Entry(p).path].mtime,
                                        clock |-> now]
                                  ELSE NoSeen]
        /\ cothers' = [cothers EXCEPT ![p] = "none"]
        /\ cover' = [cover EXCEPT ![p] = NoOver]
        /\ UNCHANGED <<fileVars, newVars, checkerVars>>

CBoot ==
    \E p \in Procs :
        /\ cpc[p] = "boot"
        /\ \E fault \in WriteVersionFaults : \E k \in Partial(fault) :
              LET r == LastModifiedBootstrap(Entry(p), fs, now, fault, k)
                  before == fs[Entry(p).path]
                  after  == r.disk[Entry(p).path]
              IN  /\ fs' = r.disk
                  /\ cpc' = [cpc EXCEPT ![p] = IF r.res.ok THEN "decide" ELSE "stat"]
                  /\ cage' = [cage EXCEPT ![p] = IF r.res.ok THEN r.res.val ELSE 0]
                  /\ cover' = [cover EXCEPT ![p] =
                                  [existed |-> before.exists,
                                   others |-> cothers[p],
                                   lostNewer |-> /\ before.exists
                                                 /\ before.content = Latest
                                                 /\ cothers[p] = "write_version"
                                                 /\ after.content # Latest]]
                  /\ cothers' = Noted(p, "bootstrap", r.disk)
        /\ UNCHANGED <<now, cacheDir, vf, last, prev, written, newVars,
                       checkerVars, cseen>>

CDecide ==
    \E p \in Procs :
        /\ cpc[p] = "decide"
        /\ IF Stale(cage[p], interval)
           THEN /\ cpc' = [cpc EXCEPT ![p] = "fetch"]
                /\ UNCHANGED <<cage, cseen>>
           ELSE /\ cpc' = [cpc EXCEPT ![p] = "read"]
                /\ cage' = [cage EXCEPT ![p] = 0]
                /\ cseen' = [cseen EXCEPT ![p] = NoSeen]
        /\ cover' = [cover EXCEPT ![p] = NoOver]
        /\ UNCHANGED <<fileVars, newVars, checkerVars, cothers>>

\* The registry call: it yields the latest version, or fails.
CFetch ==
    \E p \in Procs :
        /\ cpc[p] = "fetch"
        /\ \/ /\ cpc' = [cpc EXCEPT ![p] = "write"]
              /\ UNCHANGED <<cage, cseen>>
           \/ /\ cpc' = [cpc EXCEPT ![p] = "stat"]
              /\ cage' = [cage EXCEPT ![p] = 0]
              /\ cseen' = [cseen EXCEPT ![p] = NoSeen]
        /\ UNCHANGED <<fileVars, newVars, checkerVars, cothers, cover>>

CWrite ==
    \E p \in Procs :
        /\ cpc[p] = "write"
        /\ \E fault \in WriteVersionFaults : \E k \in Partial(fault) :
              LET r == WriteVersion(Entry(p), fs, Latest, now, fault, k)
              IN  /\ fs' = r.disk
                  /\ cothers' = Noted(p, "write_version", r.disk)
        /\ cpc' = [cpc EXCEPT ![p] = "stat"]
        /\ cage' = [cage EXCEPT ![p] = 0]
        /\ cseen' = [cseen EXCEPT ![p] = NoSeen]
        /\ UNCHANGED <<now, cacheDir, vf, last, prev, written, newVars,
                       checkerVars, cover>>

CRead ==
    \E p \in Procs :
        /\ cpc[p] = "read"
        /\ \E fault \in GetVersionFaults :
              fs' = GetVersion(Entry(p), fs, fault).disk
        /\ cpc' = [cpc EXCEPT ![p] = "stat"]
        /\ UNCHANGED <<now, cacheDir, vf, last, prev, written, newVars,
                       checkerVars, cage, cseen, cothers, cover>>

ConcInit ==
    /\ cacheDir = TRUE
    /\ vf = Entry(1)
    /\ fs = [p \in {RepoPath} |-> Absent]
    /\ now = 0
    /\ last = NoCall
    /\ prev = Summary(NoCall)
    /\ written = None
    /\ NewIdle
    /\ pc = "idle" /\ age = 0 /\ netCalls = 0 /\ firstRun = FALSE /\ shown = <<>>
    /\ interval \in 1..MaxInterval
    /\ ConcIdle

ConcNext ==
    \/ CStat
    \/ CBoot
    \/ CDecide
    \/ CFetch
    \/ CWrite
    \/ CRead
    \/ Tick
    \/ ClockSetBack

ConcSpec == ConcInit /\ [][ConcNext]_vars

(***************************************************************************)
(* Claims about the method calls of one entry (Spec).                      *)
(***************************************************************************)
TheFile == fs[vf.path]

\* C1 (bootstrap): when last_modified is called on an entry whose file does
\* not exist and no file-system call fails, it returns Ok(0) and leaves the
\* file existing with exactly the seed version as contents; a get_version
\* that follows immediately returns the seed version.
C1_Bootstrap ==
    /\ (last.op = "last_modified" /\ ~last.pre.exists /\ last.fault = "none")
         => /\ last.res = Ok(0)
            /\ TheFile.exists
            /\ TheFile.content = last.seed
    /\ (last.op = "get_version" /\ prev.kind = "bootstrap" /\ last.fault = "none")
         => last.res = Ok(last.seed)

C1_Witness ==
    /\ last.op = "get_version"
    /\ prev.kind = "bootstrap"
    /\ last.res = Ok(V100)
    /\ last.seed = V100

\* C3 (content invariant): whenever the cache file exists, its contents are
\* exactly the string of the most recent successful write.
C3_ContentInvariant ==
    TheFile.exists => (written.some /\ TheFile.content = written.val)

\* C4 (round trip with full replacement): a write_version(s) in which no
\* file-system call fails succeeds whatever the file was before, and leaves
\* the file existing with contents exactly s; a get_version that follows
\* immediately returns exactly s.
C4_RoundTrip ==
    /\ (last.op = "write_version" /\ last.fault = "none")
         => /\ last.res.ok
            /\ TheFile.exists
            /\ TheFile.content = last.arg
    /\ (last.op = "get_version" /\ prev.kind = "write" /\ last.fault = "none")
         => last.res = Ok(prev.arg)

C4_Witness ==
    /\ last.op = "get_version"
    /\ prev.kind = "write"
    /\ prev.replaced
    /\ last.res = Ok(V200)
    /\ last.seed # V200

\* C5 (recreate on an existing file): recreate_file on an existing file, with
\* no file-system call failing, succeeds and leaves the file containing
\* exactly the entry's version, whatever the file held before.
C5_RecreateExisting ==
    (last.op = "recreate_file" /\ last.pre.exists /\ last.fault = "none")
        => /\ last.res.ok
           /\ TheFile.exists
           /\ TheFile.content = last.seed

C5_Witness ==
    /\ last.op = "recreate_file"
    /\ last.pre.exists
    /\ last.pre.content = V010
    /\ last.seed = V100
    /\ last.res.ok
    /\ TheFile.content = V100

\* C6 (strict recreate): when the delete step of recreate_file fails, also
\* because the file does not exist, recreate_file returns the error, writes
\* nothing and leaves the file as it was (an absent file stays absent).
C6_StrictRecreate ==
    (last.op = "recreate_file" /\ (last.fault = "remove" \/ ~last.pre.exists))
        => /\ ~last.res.ok
           /\ (last.fault = "none" => last.res.err = "NotFound")
           /\ TheFile = last.pre

C6_Witness ==
    /\ last.op = "recreate_file"
    /\ ~last.pre.exists
    /\ last.res = Err("NotFound")
    /\ ~TheFile.exists

\* C7 (missing-file read): get_version on an entry whose file does not exist
\* returns an error (not-found unless the read fails otherwise), never a
\* string, and does not create the file.
C7_MissingFileRead ==
    (last.op = "get_version" /\ ~last.pre.exists)
        => /\ ~last.res.ok
           /\ (last.fault = "none" => last.res.err = "NotFound")
           /\ ~TheFile.exists

C7_Witness ==
    /\ last.op = "get_version"
    /\ ~last.pre.exists
    /\ last.res = Err("NotFound")

\* C9 (freshness after write): for a file last written at clock time T
\* (its modification time), last_modified called at clock time T+d returns,
\* unless a file-system call fails, a duration that is at least d and never
\* negative.
C9_FreshnessAfterWrite ==
    (last.op = "last_modified" /\ last.pre.exists /\ last.fault = "none")
        => /\ last.res.ok
           /\ last.res.val >= last.clock - last.pre.mtime
           /\ last.res.val >= 0

C9_Witness ==
    /\ last.op = "last_modified"
    /\ last.pre.exists
    /\ last.clock - last.pre.mtime = 2
    /\ last.res = Ok(2)

\* C10 as stated (timestamp clamping): for an existing file, when the
\* modification time lies in the future or when retrieving the modification
\* time fails, last_modified returns Ok with a zero duration.
C10_ClampsEveryTimestampError ==
    (last.op = "last_modified" /\ last.pre.exists
        /\ (last.pre.mtime > last.clock \/ last.fault = "mtime"))
        => last.res = Ok(0)

\* C10 amended: for an existing file, a modification time in the future is
\* clamped (last_modified returns Ok with a zero duration); a failure of
\* Metadata::modified is returned as the error, and the file is left as it
\* was.
C10_ClampsFutureOnly ==
    /\ (last.op = "last_modified" /\ last.pre.exists /\ last.fault = "none"
          /\ last.pre.mtime > last.clock)
         => last.res = Ok(0)
    /\ (last.op = "last_modified" /\ last.pre.exists /\ last.fault = "mtime")
         => /\ last.res = Err("Unsupported")
            /\ TheFile = last.pre

C10_Witness ==
    /\ last.op = "last_modified"
    /\ last.pre.exists
    /\ last.pre.mtime > last.clock
    /\ last.res = Ok(0)

\* C11 (persistence): a method call that found the cache file existing
\* never leaves it absent, whether the call succeeds or fails.
C11_NeverLeftAbsent ==
    last.pre.exists => TheFile.exists

C15_StatErrorPropagates ==
    (last.op = "last_modified" /\ last.fault = "stat")
        => /\ last.res = Err("Other")
           /\ TheFile = last.pre

C15_Witness ==
    /\ last.op = "last_modified"
    /\ last.fault = "stat"
    /\ ~last.pre.exists
    /\ last.res = Err("Other")
    /\ ~TheFile.exists

\* C18 (frame of the freshness check): last_modified called on an entry
\* whose file exists changes neither the contents nor the modification time
\* of the file, so a version stored by write_version is not replaced by the
\* seed.
C18_FreshnessCheckFrame ==
    (last.op = "last_modified" /\ last.pre.exists) => TheFile = last.pre

C18_Witness ==
    /\ last.op = "last_modified"
    /\ prev.kind = "write"
    /\ last.res.ok
    /\ TheFile.content = prev.arg
    /\ TheFile.content # last.seed
    /\ last.clock > TheFile.mtime

\* C20 (failed bootstrap is reported): when the file is absent and the
\* bootstrap write fails, last_modified returns the error of the write; a
\* success on a missing file implies that the file holds the seed version.
C20_FailedBootstrapReported ==
    /\ (last.op = "last_modified" /\ ~last.pre.exists
          /\ last.fault \in {"open", "data"})
         => last.res = Err("Other")
    /\ (last.op = "last_modified" /\ ~last.pre.exists /\ last.res.ok)
         => /\ last.res.val = 0
            /\ TheFile.exists
            /\ TheFile.content = last.seed

C20_Witness ==
    /\ last.op = "last_modified"
    /\ ~last.pre.exists
    /\ last.fault = "open"
    /\ last.res = Err("Other")
    /\ ~TheFile.exists

(***************************************************************************)
(* Claims about VersionFile::new (NewSpec).                                *)
(***************************************************************************)
\* C8 (no shared files): two entries built for distinct (registry, owner,
\* package name) triples have distinct file paths.
C8_NoSharedFiles ==
    (vfA.res.ok /\ vfB.res.ok
        /\ <<vfA.registry, vfA.pkg>> # <<vfB.registry, vfB.pkg>>)
        => vfA.res.val.path # vfB.res.val.path

\* C13 (path idempotence): two entries built for the same registry and
\* package have the same file path, whatever seed versions were passed.
C13_PathIdempotent ==
    (vfA.res.ok /\ vfB.res.ok
        /\ vfA.registry = vfB.registry /\ vfA.pkg = vfB.pkg)
        => vfA.res.val.path = vfB.res.val.path

C13_Witness ==
    /\ vfA.res.ok
    /\ vfB.res.ok
    /\ vfA.registry = vfB.registry
    /\ vfA.pkg = vfB.pkg
    /\ vfA.pkg.owner.some
    /\ vfA.res.val.version # vfB.res.val.version
    /\ vfA.res.val.path = vfB.res.val.path

\* The file name the specification prescribes for a registry and a package.
ExpectedName(registry, pkg) ==
    IF pkg.owner.some
    THEN registry \o <<"-">> \o pkg.owner.val \o <<"-">> \o pkg.name
             \o <<"-", "l", "a", "t", "e", "s", "t", "-", "v", "e", "r", "s", "i", "o", "n">>
    ELSE registry \o <<"-">> \o pkg.name
             \o <<"-", "l", "a", "t", "e", "s", "t", "-", "v", "e", "r", "s", "i", "o", "n">>

MyReg == <<"m", "y", "r", "e", "g">>

\* C14 (file naming): the path of a built entry is the cache directory
\* joined with registry, '-', the owner followed by '-' only when there is
\* an owner, the package name and '-latest-version'; with registry "myreg"
\* and name "repo" that is "myreg-o-repo-latest-version" for owner "o" and
\* "myreg-repo-latest-version" without owner.
C14_FileNaming ==
    /\ \A b \in {vfA, vfB} :
          b.res.ok => b.res.val.path = CacheDir \o <<"/">> \o ExpectedName(b.registry, b.pkg)
    /\ FileName(MyReg, Package(Some(<<"o">>), Repo.name))
          = <<"m", "y", "r", "e", "g", "-", "o", "-", "r", "e", "p", "o", "-",
              "l", "a", "t", "e", "s", "t", "-", "v", "e", "r", "s", "i", "o", "n">>
    /\ FileName(MyReg, Repo)
          = <<"m", "y", "r", "e", "g", "-", "r", "e", "p", "o", "-",
              "l", "a", "t", "e", "s", "t", "-", "v", "e", "r", "s", "i", "o", "n">>

C14_Witness ==
    /\ vfA.res.ok
    /\ ~vfA.pkg.owner.some
    /\ vfB.res.ok
    /\ vfB.pkg.owner.some
    /\ vfB.res.val.path
          = <<"/", "c", "/", "g", "-", "a", "-", "a", "-", "a", "-",
              "l", "a", "t", "e", "s", "t", "-", "v", "e", "r", "s", "i", "o", "n">>

\* C17 (cache directory availability): new succeeds exactly when cache_path
\* succeeds; after a success the cache directory exists on disk; when the
\* platform has no cache directory or the directory cannot be created, new
\* returns an error and no entry.
C17_CacheDirAvailability ==
    \A b \in {vfA, vfB} :
        b # NoBuild
          => /\ b.res.ok <=> b.fault = "none"
             /\ b.res.ok => cacheDir
             /\ b.fault = "nodir" => b.res = Err("Unable to find cache directory")
             /\ b.fault = "mkdir" => b.res = Err("Other")

C17_Witness ==
    /\ vfA.fault = "mkdir"
    /\ ~vfA.res.ok
    /\ vfB.fault = "none"
    /\ vfB.res.ok
    /\ cacheDir

C16_LookupOnOwnObservation ==
    \A p \in Procs :
        cpc[p] \in {"fetch", "write"}
            => /\ cseen[p].exists
               /\ cage[p] = cseen[p].clock - cseen[p].mtime
               /\ Stale(cage[p], interval)

\* Both processes saw the same stale file and both have made the registry
\* call; neither has written yet.
C16_Witness ==
    /\ \A p \in Procs : cpc[p] = "write" /\ cseen[p].mtime = TheFile.mtime
    /\ TheFile.exists
    /\ TheFile.content # Latest

\* C19 as stated: the bootstrap write of a process never overwrites a newer
\* version that another process stored with write_version after the first
\* process's existence check.
C19_BootstrapNeverLosesNewer ==
    \A p \in Procs : ~cover[p].lostNewer

\* C19, amended: the existence check and the bootstrap write are two
\* file-system calls with nothing between them to keep other processes out.
\* The bootstrap write finds a file in its way only when another process
\* wrote it after the check, and then it replaces what that process stored,
\* a newer version stored with write_version included.
C19_BootstrapOverwritesOnlyAfterRace ==
    \A p \in Procs :
        /\ cover[p].existed => cover[p].others \in {"bootstrap", "write_version"}
        /\ cover[p].lostNewer => cover[p].others = "write_version"

\* Process 1 found no file; process 2 stored the latest version; the
\* bootstrap write of process 1 then put its seed in place of it.
C19_Witness ==
    /\ cover[1].lostNewer
    /\ cpc[1] = "decide"
    /\ cage[1] = 0
    /\ TheFile.exists
    /\ TheFile.content = Seed(1)

====
